---------------------------- MODULE Spec2Model ----------------------------
(***************************************************************************)
(* A model of static-website-host: the server context (src/src/state.rs),  *)
(* the request handler and file responder (src/src/www.rs) and the         *)
(* lifecycle of the process (src/src/main.rs), over a small filesystem     *)
(* with directories, files, symbolic links and permissions.                *)
(*                                                                         *)
(* A file name is the sequence of its dot-separated parts, so that         *)
(* "index.html" is <<"index", "html">>, ".." is <<"", "", "">>, "." is     *)
(* <<"", "">> and the empty segment between two slashes is <<"">>.  A path *)
(* (Rust's Path/PathBuf) is the sequence of its components as              *)
(* Path::components() yields them: the root directory, written <<"/">>,    *)
(* ".", ".." and the names.                                                *)
(***************************************************************************)
EXTENDS Integers, Sequences, FiniteSets, TLC

(***************************************************************************)
(* Bounds of the model.                                                    *)
(***************************************************************************)
\* The number of connections served at the same time.
MaxConn == 2
\* The number of symbolic links canonicalization follows before it gives up
\* (the kernel's limit is 40).
MaxSymlinks == 2

(***************************************************************************)
(* Paths: std::path as the sources use it.                                 *)
(***************************************************************************)
RootDir == <<"/">>
CurDir == <<"", "">>
ParentDir == <<"", "", "">>
Normal(n) == n
IsNormal(c) == c \notin {RootDir, CurDir, ParentDir}

EmptySeg == <<"">>
DotSeg == <<"", "">>
DotDotSeg == <<"", "", "">>

\* One segment of a path string as a component; `leading` says that it is the
\* first segment of a path without a root, where alone "." is kept.
SegComponent(s, leading) ==
    IF s = EmptySeg THEN <<>>
    ELSE IF s = DotSeg THEN (IF leading THEN <<CurDir>> ELSE <<>>)
    ELSE IF s = DotDotSeg THEN <<ParentDir>>
    ELSE <<Normal(s)>>

RECURSIVE SegComponents(_, _)
SegComponents(segs, leading) ==
    IF segs = <<>> THEN <<>>
    ELSE SegComponent(Head(segs), leading) \o SegComponents(Tail(segs), FALSE)

\* Path::components() of the path string whose segments are raw.segs and
\* which starts with a slash iff raw.root.
Components(raw) ==
    (IF raw.root THEN <<RootDir>> ELSE <<>>) \o SegComponents(raw.segs, ~raw.root)

\* Iterator::skip_while(|c| matches!(c, Component::RootDir)).
RECURSIVE SkipRootDir(_)
SkipRootDir(comps) ==
    IF comps # <<>> /\ Head(comps) = RootDir THEN SkipRootDir(Tail(comps)) ELSE comps

\* PathBuf::push of one component: an absolute one replaces the path, a "."
\* pushed onto a non-empty path is not a component of the result.
Push(path, c) ==
    IF c = RootDir THEN <<RootDir>>
    ELSE IF c = CurDir /\ path # <<>> THEN path
    ELSE Append(path, c)

\* PathBuf::extend: push every component in turn.
RECURSIVE Extend(_, _)
Extend(path, comps) ==
    IF comps = <<>> THEN path ELSE Extend(Push(path, Head(comps)), Tail(comps))

\* Path::starts_with: base's components are a prefix of path's.
StartsWith(path, base) ==
    /\ Len(base) <= Len(path)
    /\ SubSeq(path, 1, Len(base)) = base

\* Path::parent.
Parent(path) == IF Len(path) <= 1 THEN path ELSE SubSeq(path, 1, Len(path) - 1)

\* Path::extension: the part of the file name after its last dot, unless the
\* name has no dot or only a leading one.  "none" stands for None.
Extension(path) ==
    IF path = <<>> \/ ~IsNormal(path[Len(path)]) THEN "none"
    ELSE LET n == path[Len(path)] IN
         IF Len(n) = 1 THEN "none"
         ELSE IF Len(n) = 2 /\ n[1] = "" THEN "none"
         ELSE n[Len(n)]

\* The absolute path /n1/n2/... of a sequence of names.
Abs(names) == <<RootDir>> \o [i \in 1..Len(names) |-> Normal(names[i])]
\* The relative path ./n1/n2/...
Rel(names) == <<CurDir>> \o [i \in 1..Len(names) |-> Normal(names[i])]

(***************************************************************************)
(* The filesystem: a function from the canonical absolute paths that exist *)
(* to their nodes.                                                         *)
(***************************************************************************)
\* A node: its kind, a link's target, its permissions, a file's length in
\* bytes and its contents.
NoNode == [kind |-> "none", target |-> <<>>, perm |-> "ok", len |-> 0, data |-> ""]
DirNode == [kind |-> "dir", target |-> <<>>, perm |-> "ok", len |-> 0, data |-> ""]
\* A directory that may not be searched (no x bit): lookups in it fail.
NoSearchDir == [kind |-> "dir", target |-> <<>>, perm |-> "nosearch", len |-> 0, data |-> ""]
FileNode(n, d) == [kind |-> "file", target |-> <<>>, perm |-> "ok", len |-> n, data |-> d]
LinkNode(t) == [kind |-> "link", target |-> t, perm |-> "ok", len |-> 0, data |-> ""]
\* A file that cannot be opened for reading (EACCES).
NoReadFile(n, d) == [kind |-> "file", target |-> <<>>, perm |-> "noread", len |-> n, data |-> d]
\* A file that opens but whose metadata cannot be read (fstat fails).
NoStatFile(n, d) == [kind |-> "file", target |-> <<>>, perm |-> "nostat", len |-> n, data |-> d]

NodeAt(f, p) == IF p \in DOMAIN f THEN f[p] ELSE NoNode

\* The filesystem f with node n at path p.
Put(f, p, n) == [q \in DOMAIN f \cup {p} |-> IF q = p THEN n ELSE f[q]]

\* The process's working directory.
Cwd == <<RootDir>>

Failed == [ok |-> FALSE, path |-> <<>>]
Resolved(p) == [ok |-> TRUE, path |-> p]

\* realpath(3): walk `rest` from the canonical directory `at`, following at
\* most `fuel` symbolic links.  A name that does not exist, a directory that
\* may not be searched, a link too many and a non-directory that is not the
\* last component all fail.
RECURSIVE Walk(_, _, _, _)
Walk(f, at, rest, fuel) ==
    IF rest = <<>> THEN Resolved(at)
    ELSE LET c == Head(rest)
             more == Tail(rest)
         IN  CASE c = RootDir -> Walk(f, <<RootDir>>, more, fuel)
               [] c = CurDir -> Walk(f, at, more, fuel)
               [] c = ParentDir -> Walk(f, Parent(at), more, fuel)
               [] OTHER ->
                    LET p == Append(at, c)
                        n == NodeAt(f, p)
                    IN  CASE NodeAt(f, at).perm = "nosearch" -> Failed
                          [] n.kind = "none" -> Failed
                          [] n.kind = "link" ->
                               IF fuel = 0 THEN Failed
                               ELSE Walk(f, at, n.target \o more, fuel - 1)
                          [] n.kind = "file" ->
                               IF more = <<>> THEN Resolved(p) ELSE Failed
                          [] OTHER -> Walk(f, p, more, fuel)

\* fs::canonicalize / Path::canonicalize.  The empty path does not exist.
Canonicalize(f, path) ==
    IF path = <<>> THEN Failed ELSE Walk(f, Cwd, path, MaxSymlinks)

\* Path::exists and Path::is_dir: metadata() of the path, links followed.
Exists(f, path) == Canonicalize(f, path).ok
IsDir(f, path) ==
    LET r == Canonicalize(f, path) IN r.ok /\ NodeAt(f, r.path).kind = "dir"

(***************************************************************************)
(* The files of the model.                                                 *)
(***************************************************************************)
Www == <<"www">>
IndexHtml == <<"index", "html">>
About == <<"about">>
AppJs == <<"app", "js">>
StyleCss == <<"style", "css">>
Readme == <<"README">>
DotHtml == <<"", "html">>
NotFoundHtml == <<"not_found", "html">>
Ext == <<"ext">>
Etc == <<"etc">>
Passwd == <<"passwd">>
Site == <<"site">>
Missing == <<"missing", "png">>

\* What lies outside the site directory: /etc with two files, and /site, a
\* symbolic link to the site directory.
Outside ==
    LET f0 == [p \in {Abs(<<>>)} |-> DirNode]
        f1 == Put(f0, Abs(<<Etc>>), DirNode)
        f2 == Put(f1, Abs(<<Etc, Passwd>>), FileNode(7, "passwd"))
        f3 == Put(f2, Abs(<<Etc, IndexHtml>>), FileNode(5, "etc_index"))
    IN  Put(f3, Abs(<<Site>>), LinkNode(Abs(<<Www>>)))

IndexKinds == {"none", "file", "noread", "nostat", "link_out"}
AboutKinds == {"none", "dir", "dir_index", "nosearch", "link_out", "loop"}
NotFoundKinds == {"none", "file", "noread"}

\* The fixed part of a site directory: four files and a link ext -> /etc.
SiteFiles ==
    LET f0 == Put(Outside, Abs(<<Www>>), DirNode)
        f1 == Put(f0, Abs(<<Www, AppJs>>), FileNode(3, "app"))
        f2 == Put(f1, Abs(<<Www, StyleCss>>), FileNode(4, "style"))
        f3 == Put(f2, Abs(<<Www, Readme>>), FileNode(6, "readme"))
        f4 == Put(f3, Abs(<<Www, DotHtml>>), FileNode(2, "dot"))
    IN  Put(f4, Abs(<<Www, Ext>>), LinkNode(Abs(<<Etc>>)))

\* f with /www/index.html: a file, a file that cannot be read or whose
\* metadata cannot be read, or a link to /etc/passwd.
WithIndex(f, index) ==
    CASE index = "file" -> Put(f, Abs(<<Www, IndexHtml>>), FileNode(9, "home"))
      [] index = "noread" -> Put(f, Abs(<<Www, IndexHtml>>), NoReadFile(9, "home"))
      [] index = "nostat" -> Put(f, Abs(<<Www, IndexHtml>>), NoStatFile(9, "home"))
      [] index = "link_out" -> Put(f, Abs(<<Www, IndexHtml>>), LinkNode(Abs(<<Etc, Passwd>>)))
      [] OTHER -> f

\* f with /www/about: a directory without or with index.html, a directory
\* that may not be searched, a link to /etc, or a link to itself.
WithAbout(f, about) ==
    CASE about = "dir" -> Put(f, Abs(<<Www, About>>), DirNode)
      [] about = "dir_index" ->
           Put(Put(f, Abs(<<Www, About>>), DirNode),
               Abs(<<Www, About, IndexHtml>>), FileNode(8, "about"))
      [] about = "nosearch" ->
           Put(Put(f, Abs(<<Www, About>>), NoSearchDir),
               Abs(<<Www, About, IndexHtml>>), FileNode(8, "about"))
      [] about = "link_out" -> Put(f, Abs(<<Www, About>>), LinkNode(Abs(<<Etc>>)))
      [] about = "loop" -> Put(f, Abs(<<Www, About>>), LinkNode(Abs(<<Www, About>>)))
      [] OTHER -> f

\* f with /www/not_found.html: a file, or a file that cannot be read.
WithNotFound(f, notfound) ==
    CASE notfound = "file" -> Put(f, Abs(<<Www, NotFoundHtml>>), FileNode(1, "custom404"))
      [] notfound = "noread" -> Put(f, Abs(<<Www, NotFoundHtml>>), NoReadFile(1, "custom404"))
      [] OTHER -> f

\* A site directory with index.html, about and not_found.html as chosen.
SiteDir(index, about, notfound) ==
    WithNotFound(WithAbout(WithIndex(SiteFiles, index), about), notfound)

\* No site directory, and a regular file where it should be.
NoSite == Outside
SiteIsFile == Put(Outside, Abs(<<Www>>), FileNode(1, "www"))

\* The layouts of the model: every index.html with every about directory,
\* the other kinds of about, a missing and an unreadable not-found page (one
\* beside an index.html that cannot be read either), and a site directory that
\* is missing or is a file.
FewLayouts ==
    { SiteDir("file", "dir_index", n) : n \in NotFoundKinds } \cup {NoSite, SiteIsFile}

Layouts ==
    { SiteDir(i, a, "file") : i \in IndexKinds, a \in {"none", "dir", "dir_index"} }
        \cup { SiteDir("file", a, "file") : a \in {"nosearch", "link_out", "loop"} }
        \cup { SiteDir("nostat", "dir", "noread") }
        \cup FewLayouts

(***************************************************************************)
(* Context::new (src/src/state.rs).                                        *)
(***************************************************************************)
\* The length in bytes of DEFAULT_NOT_FOUND_FILE.
DefaultNotFoundLen == 164

\* CARGO_BIN_NAME and CARGO_PKG_VERSION, as main passes them.
BinName == "static-website-host"
PkgVersion == "version"

\* The configuration file on disk: absent, unreadable, not YAML of a Context,
\* or the two paths of a Context.
NoConfig == [state |-> "absent", site |-> <<>>, not_found_file |-> <<>>]
DeniedConfig == [state |-> "denied", site |-> <<>>, not_found_file |-> <<>>]
GarbageConfig == [state |-> "garbage", site |-> <<>>, not_found_file |-> <<>>]
ValidConfig(s, n) == [state |-> "valid", site |-> s, not_found_file |-> n]

\* What Context::new writes for a missing configuration file.
DefaultConfig == ValidConfig(Rel(<<Www>>), Rel(<<Www, NotFoundHtml>>))
\* A configuration naming the site directory through the link /site.
LinkedConfig == ValidConfig(Abs(<<Site>>), Abs(<<Www, NotFoundHtml>>))

Configs == {NoConfig, DeniedConfig, GarbageConfig, DefaultConfig, LinkedConfig}

Context(s, n) == [name |-> BinName, version |-> PkgVersion, site |-> s, not_found_file |-> n]
NoContext == [name |-> "", version |-> "", site |-> <<>>, not_found_file |-> <<>>]

\* mkdir(2): the parent must resolve to a searchable directory and the name
\* must be free.  "exists" and "notfound" are the two errors create_dir_all
\* tells apart from the rest.
Mkdir(f, path) ==
    LET par == Canonicalize(f, Parent(path))
        p == IF par.ok THEN Append(par.path, path[Len(path)]) ELSE <<>>
    IN  IF Len(path) <= 1 \/ ~IsNormal(path[Len(path)])
        THEN [err |-> "exists", fs |-> f]
        ELSE IF ~par.ok THEN [err |-> "notfound", fs |-> f]
        ELSE IF NodeAt(f, par.path).kind # "dir" \/ NodeAt(f, par.path).perm = "nosearch"
        THEN [err |-> "other", fs |-> f]
        ELSE IF NodeAt(f, p).kind # "none" THEN [err |-> "exists", fs |-> f]
        ELSE [err |-> "none", fs |-> Put(f, p, DirNode)]

\* fs::create_dir_all: mkdir, creating the missing parents first; an error is
\* forgiven when the path is a directory by then.
RECURSIVE CreateDirAll(_, _)
CreateDirAll(f, path) ==
    IF path = <<>> THEN [ok |-> TRUE, fs |-> f]
    ELSE LET first == Mkdir(f, path) IN
         IF first.err = "none" THEN [ok |-> TRUE, fs |-> first.fs]
         ELSE IF first.err # "notfound" THEN [ok |-> IsDir(f, path), fs |-> f]
         ELSE IF Len(path) <= 1 THEN [ok |-> FALSE, fs |-> f]
         ELSE LET up == CreateDirAll(f, Parent(path)) IN
              IF ~up.ok THEN [ok |-> FALSE, fs |-> up.fs]
              ELSE LET again == Mkdir(up.fs, path) IN
                   IF again.err = "none" THEN [ok |-> TRUE, fs |-> again.fs]
                   ELSE [ok |-> IsDir(up.fs, path), fs |-> up.fs]

\* fs::write of the default not-found page to a path that does not exist:
\* the file is created in the directory its parent resolves to.
WriteDefault(f, path) ==
    LET par == Canonicalize(f, Parent(path))
        p == IF par.ok THEN Append(par.path, path[Len(path)]) ELSE <<>>
    IN  IF /\ Len(path) > 1
           /\ IsNormal(path[Len(path)])
           /\ par.ok
           /\ NodeAt(f, par.path).kind = "dir"
           /\ NodeAt(f, par.path).perm # "nosearch"
           /\ NodeAt(f, p).kind = "none"
        THEN [ok |-> TRUE, fs |-> Put(f, p, FileNode(DefaultNotFoundLen, "default404"))]
        ELSE [ok |-> FALSE, fs |-> f]

CtxErr(e, f, c) == [ok |-> FALSE, err |-> e, ctx |-> NoContext, fs |-> f, cfg |-> c]
CtxOk(x, f, c) == [ok |-> TRUE, err |-> "none", ctx |-> x, fs |-> f, cfg |-> c]

\* Context::new on a configuration file that parsed.
LoadContext(f, c) ==
    LET made == IF Exists(f, c.site) THEN [ok |-> TRUE, fs |-> f]
                ELSE CreateDirAll(f, c.site)
        canon == Canonicalize(made.fs, c.site)
        wrote == IF Exists(made.fs, c.not_found_file) THEN [ok |-> TRUE, fs |-> made.fs]
                 ELSE WriteDefault(made.fs, c.not_found_file)
    IN  IF ~made.ok THEN CtxErr("SiteDirCreate", made.fs, c)
        ELSE IF ~canon.ok THEN CtxErr("SiteDirCanonicalize", made.fs, c)
        ELSE IF ~wrote.ok THEN CtxErr("NotFoundFileCreate", wrote.fs, c)
        ELSE CtxOk(Context(canon.path, c.not_found_file), wrote.fs, c)

\* Context::new on a missing configuration file: the defaults are written to
\* the file and returned as they are.
GenerateDefault(f, c, io) ==
    CASE io = "create_fails" -> CtxErr("ConfigCreate", f, c)
      [] io = "write_fails" -> CtxErr("ConfigWrite", f, GarbageConfig)
      [] OTHER -> CtxOk(Context(DefaultConfig.site, DefaultConfig.not_found_file),
                        f, DefaultConfig)

\* Context::new.  `io` is how creating and writing the configuration file
\* fare, should they happen.
ContextNew(f, c, io) ==
    CASE c.state = "absent" -> GenerateDefault(f, c, io)
      [] c.state = "denied" -> CtxErr("ConfigOpen", f, c)
      [] c.state = "garbage" -> CtxErr("ConfigParse", f, c)
      [] OTHER -> LoadContext(f, c)

(***************************************************************************)
(* The file responder and the request handler (src/src/www.rs).            *)
(***************************************************************************)
NoHeaders == [h \in {} |-> ""]
ServerValue(ctx) == <<ctx.name, "/", ctx.version>>

\* A variant of InternalError that answers 500 whatever the caller's code.
InternalError500(code) ==
    [status |-> 500, headers |-> NoHeaders,
     body |-> [kind |-> "inline", file |-> <<>>, data |-> "Internal server error"]]

\* The response of both failure branches of return_file.
InternalError(code) ==
    [status |-> code, headers |-> NoHeaders,
     body |-> [kind |-> "inline", file |-> <<>>, data |-> "Internal server error"]]

\* A variant of MimeType with another type for scripts.
MimeTypeScript(path) ==
    LET e == Extension(path) IN
    CASE e = "html" -> "text/html"
      [] e = "js" -> "application/javascript"
      [] e = "css" -> "text/css"
      [] OTHER -> "text/plain"

\* The mime type return_file guesses from the path's extension.
MimeType(path) ==
    LET e == Extension(path) IN
    CASE e = "html" -> "text/html"
      [] e = "js" -> "text/javascript"
      [] e = "css" -> "text/css"
      [] OTHER -> "text/plain"

\* File::open: the path's links are followed; the node must exist and be
\* readable.
OpenFile(f, path) ==
    LET r == Canonicalize(f, path) IN
    IF r.ok /\ NodeAt(f, r.path).perm # "noread" THEN r ELSE Failed

\* File::metadata of an open file.
Metadata(f, real) ==
    IF NodeAt(f, real).perm = "nostat" THEN [ok |-> FALSE, len |-> 0]
    ELSE [ok |-> TRUE, len |-> NodeAt(f, real).len]

\* return_file: the response for `path` with status `code`.  The body streams
\* the file that was opened, named here by its canonical path.
ReturnFile(f, ctx, code, path) ==
    LET handle == OpenFile(f, path)
        md == Metadata(f, handle.path)
    IN  IF ~handle.ok THEN InternalError(code)
        ELSE IF ~md.ok THEN InternalError(code)
        ELSE [status |-> code,
              headers |-> [ContentType |-> MimeType(path),
                           ContentLength |-> md.len,
                           Server |-> ServerValue(ctx)],
              body |-> [kind |-> "file", file |-> handle.path,
                        data |-> NodeAt(f, handle.path).data]]

NOT_FOUND == 404
OK == 200

\* A request as axum hands it to handle: no path at all (the route "/"), or
\* the path string matched by "/*path".
NoPath == [some |-> FALSE, root |-> FALSE, segs |-> <<>>]
SomePath(root, segs) == [some |-> TRUE, root |-> root, segs |-> segs]

\* path.map(|p| p.0).unwrap_or_default()
RequestPath(req) ==
    IF req.some THEN [root |-> req.root, segs |-> req.segs]
    ELSE [root |-> FALSE, segs |-> <<>>]

\* The path handle canonicalizes: the site directory extended by the
\* request's components, leading root directories skipped.
JoinedPath(ctx, req) == Extend(ctx.site, SkipRootDir(Components(RequestPath(req))))

\* The containment check of handle on a canonical path.
Contained(ctx, canonical) == StartsWith(canonical, ctx.site)

\* A variant of Deny that answers an escape with 403.
DenyForbidden(ctx, why) ==
    [code |-> IF why = "escaped" THEN 403 ELSE 404, path |-> ctx.not_found_file, why |-> why]

\* What handle calls return_file with: the status code and the path.
Deny(ctx, why) == [code |-> NOT_FOUND, path |-> ctx.not_found_file, why |-> why]
Allow(path) == [code |-> OK, path |-> path, why |-> "allowed"]

\* A variant of Resolve without the containment check.
ResolveUncontained(f, ctx, req) ==
    LET canon == Canonicalize(f, JoinedPath(ctx, req))
        index == Push(canon.path, Normal(IndexHtml))
    IN  IF ~canon.ok THEN Deny(ctx, "canonicalize")
        ELSE IF IsDir(f, canon.path)
             THEN (IF Exists(f, index) THEN Allow(index) ELSE Deny(ctx, "no_index"))
             ELSE Allow(canon.path)

\* A variant of Resolve that does not look for a directory's index.html.
ResolveAnyIndex(f, ctx, req) ==
    LET canon == Canonicalize(f, JoinedPath(ctx, req))
        index == Push(canon.path, Normal(IndexHtml))
    IN  IF ~canon.ok THEN Deny(ctx, "canonicalize")
        ELSE IF ~Contained(ctx, canon.path) THEN Deny(ctx, "escaped")
        ELSE IF IsDir(f, canon.path) THEN Allow(index)
        ELSE Allow(canon.path)

\* The call of return_file that handle ends with: Allow for a path that
\* canonicalizes into the site directory (index.html in it for a directory),
\* Deny otherwise.
Resolve(f, ctx, req) ==
    LET canon == Canonicalize(f, JoinedPath(ctx, req))
        index == Push(canon.path, Normal(IndexHtml))
    IN  IF ~canon.ok THEN Deny(ctx, "canonicalize")
        ELSE IF ~Contained(ctx, canon.path) THEN Deny(ctx, "escaped")
        ELSE IF IsDir(f, canon.path)
             THEN (IF Exists(f, index) THEN Allow(index) ELSE Deny(ctx, "no_index"))
             ELSE Allow(canon.path)

(***************************************************************************)
(* The process (src/src/main.rs).                                          *)
(***************************************************************************)
\* The request paths of the model.
Requests ==
    { NoPath,
      SomePath(TRUE, <<>>),
      SomePath(FALSE, <<IndexHtml>>),
      SomePath(FALSE, <<About>>),
      SomePath(FALSE, <<DotDotSeg, DotDotSeg, Etc, Passwd>>),
      SomePath(TRUE, <<Etc, Passwd>>),
      SomePath(FALSE, <<AppJs>>),
      SomePath(TRUE, <<AppJs>>),
      SomePath(FALSE, <<StyleCss>>),
      SomePath(FALSE, <<Readme>>),
      SomePath(FALSE, <<DotHtml>>),
      SomePath(FALSE, <<Missing>>),
      SomePath(FALSE, <<Ext, Passwd>>),
      SomePath(FALSE, <<About, DotSeg, DotDotSeg, AppJs>>) }

Conns == 1..MaxConn

NoCall == [code |-> 0, path |-> <<>>, why |-> ""]
NoResponse ==
    [status |-> 0, headers |-> NoHeaders,
     body |-> [kind |-> "none", file |-> <<>>, data |-> ""]]
\* The file return_file has opened and not yet built its response from.
Opened(real) ==
    [status |-> 0, headers |-> NoHeaders,
     body |-> [kind |-> "handle", file |-> real, data |-> ""]]
\* A connection task: idle (none), open, done (its last request answered) or
\* failed (serve_connection_with_upgrades returned an error, which is logged);
\* resolved and opened while handle waits for File::open and for
\* File::metadata.  `overlap` records that another task's request was being
\* handled at one of the steps of this task's request.
IdleConn ==
    [st |-> "idle", req |-> NoPath, call |-> NoCall, resp |-> NoResponse,
     overlap |-> FALSE]
OpenConn == [IdleConn EXCEPT !.st = "open"]
FailedConn == [IdleConn EXCEPT !.st = "failed"]

VARIABLES
    fs,     \* the filesystem
    cfg,    \* the configuration file
    pc,     \* where main is: start, runtime, ctx, select, serving, stopped, exited
    ctx,    \* the shared Context
    stop,   \* why main left its select! or the process exited
    conn    \* the connection tasks

vars == <<fs, cfg, pc, ctx, stop, conn>>

\* Every layout is tried with the configuration that names the site through
\* a link, a few layouts with the other states of the configuration file.
Init ==
    /\ fs \in Layouts
    /\ cfg \in Configs
    /\ cfg # LinkedConfig => fs \in FewLayouts
    /\ pc = "start"
    /\ ctx = NoContext
    /\ stop = "none"
    /\ conn = [c \in Conns |-> IdleConn]

\* std::process::exit(1): every task dies with the process.
Exit(why) ==
    /\ pc' = "exited"
    /\ stop' = why
    /\ conn' = [c \in Conns |-> IdleConn]

\* main built (or failed to build) the tokio runtime.
BuildRuntime ==
    /\ pc = "start"
    /\ \E ok \in BOOLEAN :
          IF ok THEN pc' = "runtime" /\ UNCHANGED <<stop, conn>>
          ELSE Exit("runtime")
    /\ UNCHANGED <<fs, cfg, ctx>>

\* main initializes the state with Context::new.
InitContext ==
    /\ pc = "runtime"
    /\ \E io \in {"ok", "create_fails", "write_fails"} :
          LET r == ContextNew(fs, cfg, io) IN
          /\ fs' = r.fs
          /\ cfg' = r.cfg
          /\ ctx' = r.ctx
          /\ IF r.ok THEN pc' = "ctx" /\ UNCHANGED <<stop, conn>>
             ELSE Exit(r.err)

\* main binds the listener.
Bind ==
    /\ pc = "ctx"
    /\ \E ok \in BOOLEAN :
          IF ok THEN pc' = "select" /\ UNCHANGED <<stop, conn>>
          ELSE Exit("bind")
    /\ UNCHANGED <<fs, cfg, ctx>>

\* The select! ends: main shuts the runtime down and returns.
Shutdown(why) ==
    /\ pc' = "stopped"
    /\ stop' = why
    /\ conn' = [c \in Conns |-> IdleConn]

\* The first poll of select!: both signal branches register their handler.  A
\* branch whose registration fails completes at once with None.
PollSignals ==
    /\ pc = "select"
    /\ \E int \in BOOLEAN, term \in BOOLEAN :
          IF ~int THEN Shutdown("sigint_not_registered")
          ELSE IF ~term THEN Shutdown("sigterm_not_registered")
          ELSE pc' = "serving" /\ UNCHANGED <<stop, conn>>
    /\ UNCHANGED <<fs, cfg, ctx>>

\* A registered signal arrives.
Signal ==
    /\ pc = "serving"
    /\ \E s \in {"SIGINT", "SIGTERM"} : Shutdown(s)
    /\ UNCHANGED <<fs, cfg, ctx>>

FreeConns == {c \in Conns : conn[c].st \in {"idle", "failed"}}

\* listener.accept() returns: a connection, served by a new task, or an error.
Accept ==
    /\ pc = "serving"
    /\ \E ok \in BOOLEAN :
          IF ok
          THEN /\ FreeConns # {}
               /\ LET c == CHOOSE m \in FreeConns : \A o \in FreeConns : m <= o
                  IN  conn' = [conn EXCEPT ![c] = OpenConn]
               /\ UNCHANGED <<pc, stop>>
          ELSE Exit("accept")
    /\ UNCHANGED <<fs, cfg, ctx>>

\* A request on connection c is answered by handle.
Handle(c) ==
    /\ pc = "serving"
    /\ conn[c].st = "open"
    /\ \E req \in Requests :
          LET call == Resolve(fs, ctx, req) IN
          conn' = [conn EXCEPT ![c] =
                      [st |-> "done", req |-> req, call |-> call,
                       resp |-> ReturnFile(fs, ctx, call.code, call.path),
                       overlap |-> FALSE]]
    /\ UNCHANGED <<fs, cfg, pc, ctx, stop>>

\* The response on connection c is delivered; the connection is kept alive
\* for a next request.
Deliver(c) ==
    /\ pc = "serving"
    /\ conn[c].st = "done"
    /\ conn' = [conn EXCEPT ![c] = OpenConn]
    /\ UNCHANGED <<fs, cfg, pc, ctx, stop>>

\* Connection c ends: closed by the client, or with an error that the task
\* logs.
EndConn(c) ==
    /\ pc = "serving"
    /\ conn[c].st \in {"open", "done"}
    /\ \E ok \in BOOLEAN :
          conn' = [conn EXCEPT ![c] = IF ok THEN IdleConn ELSE FailedConn]
    /\ UNCHANGED <<fs, cfg, pc, ctx, stop>>

Next ==
    \/ BuildRuntime
    \/ InitContext
    \/ Bind
    \/ PollSignals
    \/ Signal
    \/ Accept
    \/ \E c \in Conns : Handle(c)
    \/ \E c \in Conns : Deliver(c)
    \/ \E c \in Conns : EndConn(c)

Spec == Init /\ [][Next]_vars

(***************************************************************************)
(* The handler step by step: handle runs up to the first .await of         *)
(* return_file, and the tasks of other connections run while it waits for  *)
(* File::open and for File::metadata.                                      *)
(***************************************************************************)
\* The request paths and the layouts of the step-by-step specification.
StepRequests ==
    { NoPath,
      SomePath(TRUE, <<>>),
      SomePath(FALSE, <<About>>),
      SomePath(FALSE, <<AppJs>>),
      SomePath(FALSE, <<DotDotSeg, DotDotSeg, Etc, Passwd>>) }

StepLayouts ==
    { SiteDir("file", "dir_index", "file"),
      SiteDir("nostat", "dir", "noread"),
      SiteDir("link_out", "none", "file") }

InitSteps ==
    /\ fs \in StepLayouts
    /\ cfg \in {LinkedConfig, NoConfig}
    /\ pc = "start"
    /\ ctx = NoContext
    /\ stop = "none"
    /\ conn = [c \in Conns |-> IdleConn]

\* The request of another connection than c is being handled.
OthersInFlight(c) ==
    \E o \in Conns \ {c} : conn[o].st \in {"resolved", "opened"}

\* A variant of HandleResolve that joins the request path onto the shared
\* site path in place instead of onto a copy of it.
HandleResolveInPlace(c) ==
    /\ pc = "serving"
    /\ conn[c].st = "open"
    /\ \E req \in StepRequests :
          /\ conn' = [conn EXCEPT ![c] =
                         [st |-> "resolved", req |-> req,
                          call |-> Resolve(fs, ctx, req),
                          resp |-> NoResponse, overlap |-> OthersInFlight(c)]]
          /\ ctx' = [ctx EXCEPT !.site = JoinedPath(ctx, req)]
    /\ UNCHANGED <<fs, cfg, pc, stop>>

\* handle on connection c up to return_file's File::open(path).await: the
\* request is resolved to the call of return_file.
HandleResolve(c) ==
    /\ pc = "serving"
    /\ conn[c].st = "open"
    /\ \E req \in StepRequests :
          conn' = [conn EXCEPT ![c] =
                      [st |-> "resolved", req |-> req,
                       call |-> Resolve(fs, ctx, req),
                       resp |-> NoResponse, overlap |-> OthersInFlight(c)]]
    /\ UNCHANGED <<fs, cfg, pc, ctx, stop>>

\* File::open returns: return_file answers with the error, or goes on to
\* handle.metadata().await with the open file.
ReturnFileOpen(c) ==
    /\ pc = "serving"
    /\ conn[c].st = "resolved"
    /\ LET handle == OpenFile(fs, conn[c].call.path)
           over == conn[c].overlap \/ OthersInFlight(c)
       IN  conn' = [conn EXCEPT ![c] =
                       IF handle.ok
                       THEN [@ EXCEPT !.st = "opened", !.resp = Opened(handle.path),
                                      !.overlap = over]
                       ELSE [@ EXCEPT !.st = "done", !.resp = InternalError(conn[c].call.code),
                                      !.overlap = over]]
    /\ UNCHANGED <<fs, cfg, pc, ctx, stop>>

\* File::metadata returns: return_file answers with the error, or with the
\* headers and the open file as body.
ReturnFileMetadata(c) ==
    /\ pc = "serving"
    /\ conn[c].st = "opened"
    /\ LET real == conn[c].resp.body.file
           md == Metadata(fs, real)
           code == conn[c].call.code
           over == conn[c].overlap \/ OthersInFlight(c)
       IN  conn' = [conn EXCEPT ![c] =
                       [@ EXCEPT !.st = "done",
                                 !.overlap = over,
                                 !.resp =
                                    IF ~md.ok THEN InternalError(code)
                                    ELSE [status |-> code,
                                          headers |-> [ContentType |-> MimeType(conn[c].call.path),
                                                       ContentLength |-> md.len,
                                                       Server |-> ServerValue(ctx)],
                                          body |-> [kind |-> "file", file |-> real,
                                                    data |-> NodeAt(fs, real).data]]]]
    /\ UNCHANGED <<fs, cfg, pc, ctx, stop>>

\* Connection c ends while its request is being handled: the client went
\* away and the task is dropped at its .await.
AbortConn(c) ==
    /\ pc = "serving"
    /\ conn[c].st \in {"resolved", "opened"}
    /\ conn' = [conn EXCEPT ![c] = IdleConn]
    /\ UNCHANGED <<fs, cfg, pc, ctx, stop>>

NextSteps ==
    \/ BuildRuntime
    \/ InitContext
    \/ Bind
    \/ PollSignals
    \/ Signal
    \/ Accept
    \/ \E c \in Conns : HandleResolve(c)
    \/ \E c \in Conns : ReturnFileOpen(c)
    \/ \E c \in Conns : ReturnFileMetadata(c)
    \/ \E c \in Conns : AbortConn(c)
    \/ \E c \in Conns : Deliver(c)
    \/ \E c \in Conns : EndConn(c)

SpecSteps == InitSteps /\ [][NextSteps]_vars

(***************************************************************************)
(* Properties.                                                             *)
(***************************************************************************)
Done(c) == conn[c].st = "done"

\* The path of index.html in the directory `dir`.
IndexOf(dir) == Append(dir, Normal(IndexHtml))

\* Opening `path` or reading the metadata of the opened file fails.
IoFails(f, path) ==
    \/ ~OpenFile(f, path).ok
    \/ ~Metadata(f, OpenFile(f, path).path).ok

\* C1 (as claimed): whenever handle answers 200, the file it opens and
\* streams lies, links resolved, under the site directory, and so does the
\* real target of the path it serves.
C1_Containment ==
    \A c \in Conns :
        (Done(c) /\ conn[c].resp.status = OK) =>
            /\ conn[c].resp.body.kind = "file" =>
                   StartsWith(conn[c].resp.body.file, ctx.site)
            /\ Exists(fs, conn[c].call.path) =>
                   StartsWith(Canonicalize(fs, conn[c].call.path).path, ctx.site)

\* The outcome of resolving request `req` is Allowed: its joined path
\* canonicalizes, stays under the site directory and, if it is a directory,
\* has an index.html.
Allowed(req) ==
    LET canon == Canonicalize(fs, JoinedPath(ctx, req)) IN
    /\ canon.ok
    /\ StartsWith(canon.path, ctx.site)
    /\ NodeAt(fs, canon.path).kind = "dir" => Exists(fs, IndexOf(canon.path))

\* The path an Allowed request resolves to.
ResolvedPath(req) ==
    LET canon == Canonicalize(fs, JoinedPath(ctx, req)) IN
    IF NodeAt(fs, canon.path).kind = "dir" THEN IndexOf(canon.path) ELSE canon.path

C3_ContextInvariant ==
    ctx # NoContext =>
        /\ IsDir(fs, ctx.site)
        /\ Canonicalize(fs, ctx.site) = Resolved(ctx.site)
        /\ OpenFile(fs, ctx.not_found_file).ok

Denied(c) ==
    /\ Done(c)
    /\ conn[c].call.why \in {"escaped", "canonicalize", "no_index"}

\* Request c could not be served: it was denied, or its target could not be
\* opened for lack of permission.
NotServed(c) ==
    \/ Denied(c)
    \/ Done(c) /\ ~OpenFile(fs, conn[c].call.path).ok

C7_ServerHeader ==
    \A c \in Conns :
        Done(c) =>
            /\ "Server" \in DOMAIN conn[c].resp.headers
            /\ conn[c].resp.headers.Server = <<ctx.name, "/", ctx.version>>

\* C8 (as claimed): once initialization has succeeded, main leaves its select!
\* only for a SIGINT or SIGTERM that was received or for a failed accept.
C8_StopsOnlyOnSignalOrAccept ==
    [][(pc \in {"select", "serving"} /\ pc' \notin {"select", "serving"}) =>
          stop' \in {"SIGINT", "SIGTERM", "accept"}]_vars

\* The Content-Type the claim gives for an extension.
TypeOfExtension(e) ==
    CASE e = "html" -> "text/html"
      [] e = "js" -> "text/javascript"
      [] e = "css" -> "text/css"
      [] OTHER -> "text/plain"

\* C9 (as claimed): whenever return_file opened the file, the response has
\* the Content-Type that the extension of the path handed to return_file
\* decides.
C9_AsClaimed ==
    \A c \in Conns :
        (Done(c) /\ OpenFile(fs, conn[c].call.path).ok) =>
            /\ "ContentType" \in DOMAIN conn[c].resp.headers
            /\ conn[c].resp.headers.ContentType = TypeOfExtension(Extension(conn[c].call.path))

\* C9 (amended): whenever return_file opened the file and read its metadata,
\* Content-Type is decided by the extension of the path handed to return_file
\* alone: the resolved path under 200, the not-found file under 404.
C9_ContentType ==
    \A c \in Conns :
        (Done(c) /\ ~IoFails(fs, conn[c].call.path)) =>
            /\ "ContentType" \in DOMAIN conn[c].resp.headers
            /\ conn[c].resp.headers.ContentType = TypeOfExtension(Extension(conn[c].call.path))
            /\ \A d \in Conns :
                  (/\ Done(d)
                   /\ ~IoFails(fs, conn[d].call.path)
                   /\ Extension(conn[d].call.path) = Extension(conn[c].call.path)) =>
                      conn[d].resp.headers.ContentType = conn[c].resp.headers.ContentType

\* A script served as text/javascript and a file without extension as
\* text/plain.
C9_Witness ==
    \E c, d \in Conns :
        /\ Done(c) /\ conn[c].resp.status = OK
        /\ ~IoFails(fs, conn[c].call.path)
        /\ conn[c].resp.headers.ContentType = "text/javascript"
        /\ Done(d) /\ conn[d].resp.status = OK
        /\ ~IoFails(fs, conn[d].call.path)
        /\ Extension(conn[d].call.path) = "none"
        /\ conn[d].resp.headers.ContentType = "text/plain"

\* C10 (as claimed): two request paths that differ only in a leading slash
\* (or in being absent rather than empty) are handled alike; the empty one
\* yields index.html of the site directory with 200 when that exists and 404
\* otherwise.
C10_RootDefault ==
    \A c \in Conns :
        Done(c) =>
            /\ \A d \in Conns :
                  (Done(d) /\ RequestPath(conn[d].req).segs = RequestPath(conn[c].req).segs) =>
                      /\ conn[d].call = conn[c].call
                      /\ conn[d].resp = conn[c].resp
            /\ RequestPath(conn[c].req).segs = <<>> =>
                  IF Exists(fs, IndexOf(ctx.site))
                  THEN /\ conn[c].resp.status = OK
                       /\ conn[c].call.path = IndexOf(ctx.site)
                  ELSE conn[c].resp.status = NOT_FOUND

\* C10, for the contexts that satisfy the invariant of C3.
C10_RootDefaultCanonical ==
    C3_ContextInvariant => C10_RootDefault

\* A step of the handling of connection c's request.
HandlerStep(c) ==
    /\ conn[c].st \in {"open", "resolved", "opened"}
    /\ conn'[c].st \in {"resolved", "opened", "done"}
    /\ conn'[c].st # conn[c].st

\* C11: no step of a request's handling changes the shared context, the
\* filesystem, the configuration or another connection's task; so a request
\* that ends gets what handle and return_file yield for its path when nothing
\* runs in between, which is also what every other request for the same path
\* got, before or meanwhile.
C11_DeterminismIsolation ==
    [][\A c \in Conns :
          HandlerStep(c) =>
              /\ ctx' = ctx
              /\ fs' = fs
              /\ cfg' = cfg
              /\ \A o \in Conns \ {c} : conn'[o] = conn[o]
              /\ conn'[c].st # "resolved" => conn'[c].req = conn[c].req
              /\ conn'[c].st = "done" =>
                    /\ conn'[c].call = Resolve(fs, ctx, conn'[c].req)
                    /\ conn'[c].resp =
                          ReturnFile(fs, ctx, conn'[c].call.code, conn'[c].call.path)
                    /\ \A o \in Conns \ {c} :
                          (conn[o].st = "done" /\ conn[o].req = conn'[c].req) =>
                              /\ conn[o].call = conn'[c].call
                              /\ conn[o].resp = conn'[c].resp]_vars

\* Two requests for the same path answered 200 with the same file, each
\* handled while the other was.
C11_Witness ==
    \E c, d \in Conns :
        /\ c # d
        /\ Done(c) /\ Done(d)
        /\ conn[c].req = conn[d].req
        /\ conn[c].overlap /\ conn[d].overlap
        /\ conn[c].resp.status = OK
        /\ conn[c].resp.body.kind = "file"
        /\ conn[c].resp = conn[d].resp
=============================================================================
